---- MODULE Spec2Model ----
(***************************************************************************)
(* The Docker engine of ansible-container                                  *)
(* (container/conductor/docker/engine.py) as a state machine.              *)
(*                                                                         *)
(* The engine is a synchronous client of the Docker daemon.  The state is  *)
(* the engine's configuration (services, debug, project name), the part    *)
(* of its process it reads (os.environ, the file system), the daemon's     *)
(* containers and images, the log multiplexer's workers, and a record of   *)
(* the call that has just returned (lastOp) with the requests it sent to   *)
(* the daemon (backendCalls).                                              *)
(***************************************************************************)
EXTENDS Integers, Sequences, FiniteSets, TLC

VARIABLES
    services,      \* self.services: service name -> declared parameters
    debug,         \* self.debug
    environ,       \* os.environ, the three variables run_conductor reads
    fs,            \* the files that exist: a set of <<directory, file name>>
    containers,    \* the daemon's containers: id -> record
    nextId,        \* the id the daemon gives the next container
    images,        \* the daemon's images: id -> record
    nextImageId,   \* the id the daemon gives the next image
    now,           \* the UTC clock, in seconds
    emitted,       \* container id -> number of output lines written so far
    readPos,       \* log worker of a container id -> number of lines read
    sink,          \* the lines the shared logger has received, in order
    stalled,       \* the workers whose delivery to the sink is stalled
    archive,       \* the members of the last build context archive
    buildLog,      \* what the last debug build sent to logger.debug
    lastOp,        \* the engine call that has just returned
    backendCalls   \* the requests that call sent to the daemon, in order

vars == <<services, debug, environ, fs, containers, nextId, images,
          nextImageId, now, emitted, readPos, sink, stalled, archive,
          buildLog, lastOp, backendCalls>>

configVars == <<services, debug, environ, fs>>
containerVars == <<containers, nextId>>
imageVars == <<images, nextImageId>>
muxVars == <<emitted, readPos, sink, stalled>>
buildVars == <<archive, buildLog>>

----------------------------------------------------------------------------
(* Bounds of the model. *)

MaxContainers == 2
MaxImages == 3
MaxTime == 1
MaxLines == 2
GraceStep == 30

(* Program constants. *)

StopTimeout == 60

project_name == "proj"
FINGERPRINT_LABEL_KEY == "com.ansible.container.fingerprint"
LAYER_COMMENT == "Built with Ansible Container (https://github.com/ansible/ansible-container)"
DOCKER_VERSION == "1.13.1"
BuildOnlyKeys == <<"from", "roles">>

ServiceNames == {"web", "db"}

----------------------------------------------------------------------------
(* Python values. *)

NoneVal == <<"None">>
FalseVal == <<"False">>
IdVal(i) == <<"id", i>>

EmptyDict == [k \in {} |-> "x"]

Range(s) == {s[i] : i \in DOMAIN s}

\* A dict.update the wrong way round: the value already there is kept.
DictUpdateKeepsOld(d, other) ==
    [k \in DOMAIN d \cup DOMAIN other |->
        IF k \in DOMAIN d THEN d[k] ELSE other[k]]

\* dict.update(other): the keys of both, other's value on a shared key.
DictUpdate(d, other) ==
    [k \in DOMAIN d \cup DOMAIN other |->
        IF k \in DOMAIN other THEN other[k] ELSE d[k]]

\* d with the keys of ks removed (every one of them present).
DictWithout(d, ks) == [k \in DOMAIN d \ ks |-> d[k]]

\* All dictionaries with keys among keys and every value v.
Dicts(keys, v) == UNION {[ks -> {v}] : ks \in SUBSET keys}

(* docker.errors: ImageNotFound is a NotFound, NotFound is an APIError.    *)
(* BuildError, and Python's KeyError, ValueError and OSError, are not.     *)
IsNotFound(e) == e \in {"NotFound", "ImageNotFound"}
IsImageNotFound(e) == e = "ImageNotFound"
IsAPIError(e) == e \in {"APIError", "NotFound", "ImageNotFound"}

(* lastOp: the call, its arguments, what it returned or raised, and the     *)
(* daemon's answer to the lookup it made ("none": found, or no lookup).    *)
Idle == [op |-> "idle", args |-> EmptyDict, ret |-> NoneVal, exc |-> "none",
         reply |-> "none"]

Answered(op, args, ret, reply) ==
    [op |-> op, args |-> args, ret |-> ret, exc |-> "none", reply |-> reply]
Returned(op, args, ret) == Answered(op, args, ret, "none")
Raised(op, args, exc) ==
    [op |-> op, args |-> args, ret |-> NoneVal, exc |-> exc, reply |-> exc]

----------------------------------------------------------------------------
(* Names. *)

container_name_for_service(service_name) == project_name \o "_" \o service_name

image_name_for_service(service_name) == project_name \o "-" \o service_name

----------------------------------------------------------------------------
(* The daemon's answers to the lookups the engine makes.  A lookup of      *)
(* something the daemon does not know is answered 404 (NotFound); fault    *)
(* stands for any other error answer (the object is inaccessible).         *)

ContainerIdsNamed(name) == {i \in DOMAIN containers : containers[i].name = name}

\* client.containers.get(...) by id and by name, and what it raises.
ContainerIdKnown(container_id) == container_id \in DOMAIN containers

ContainerNameKnown(name) == ContainerIdsNamed(name) # {}

ContainerNamed(name) == CHOOSE i \in ContainerIdsNamed(name) : TRUE

LookupExc(known, fault) ==
    IF ~known THEN "NotFound"
    ELSE IF fault THEN "APIError"
    ELSE "none"

GetById(container_id) == [api |-> "containers.get", id |-> container_id]
GetByName(name) == [api |-> "containers.get", name |-> name]

----------------------------------------------------------------------------
(* run_container *)

RunKwargsRaises(service_name) ==
    \E i \in DOMAIN BuildOnlyKeys : BuildOnlyKeys[i] \notin DOMAIN services[service_name]

run_kwargs_for_service(service_name) ==
    DictWithout(services[service_name], Range(BuildOnlyKeys))

\* The daemon creates and starts a container, which has written nothing yet.
StartContainer(id, name, image_id) ==
    /\ containers' = [i \in DOMAIN containers \cup {id} |->
            IF i = id
            THEN [name |-> name, image |-> image_id, status |-> "running",
                  killedBy |-> "none", waited |-> 0]
            ELSE containers[i]]
    /\ nextId' = nextId + 1
    /\ emitted' = [i \in DOMAIN emitted \cup {id} |->
                     IF i = id THEN 0 ELSE emitted[i]]

AutoName(id) == "auto" \o ToString(id)

\* A launch that takes the log iterator and never hands it to the
\* multiplexer.
add_iterator_dropped(id) == UNCHANGED <<readPos, sink, stalled>>

\* container_obj.logs(stream=True) handed to LogMultiplexer.add_iterator: a
\* worker starts at the first line of the container's output.
add_iterator(id) ==
    /\ readPos' = [i \in DOMAIN readPos \cup {id} |->
                     IF i = id THEN 0 ELSE readPos[i]]
    /\ UNCHANGED <<sink, stalled>>

run_container(image_id, service_name, kwargs) ==
    LET args == [image_id |-> image_id, service_name |-> service_name,
                 kwargs |-> kwargs]
    IN
    /\ nextId <= MaxContainers
    /\ IF RunKwargsRaises(service_name)
       THEN /\ lastOp' = Raised("run_container", args, "KeyError")
            /\ backendCalls' = <<>>
            /\ UNCHANGED <<containerVars, muxVars>>
       ELSE LET run_kwargs == DictUpdate(run_kwargs_for_service(service_name), kwargs)
                name == IF "name" \in DOMAIN run_kwargs
                        THEN run_kwargs["name"] ELSE AutoName(nextId)
                request == [api |-> "containers.run", image |-> image_id,
                            detach |-> TRUE, params |-> run_kwargs]
            IN
            /\ backendCalls' = <<request>>
            /\ IF ContainerIdsNamed(name) # {}
               THEN /\ lastOp' = Raised("run_container", args, "APIError")
                    /\ UNCHANGED <<containerVars, muxVars>>
               ELSE /\ StartContainer(nextId, name, image_id)
                    /\ add_iterator(nextId)
                    /\ lastOp' = Returned("run_container", args, IdVal(nextId))
    /\ UNCHANGED <<configVars, imageVars, now, buildVars>>

----------------------------------------------------------------------------
(* stop_container, delete_container and the container reads *)

\* The times, in seconds after a stop request, at which a container may be
\* gone: by itself before the grace period is over, or killed by the daemon
\* when it is.
ExitTimes == {t \in 0..StopTimeout : t % GraceStep = 0} \cup {StopTimeout}

SetContainer(id, rec) == [containers EXCEPT ![id] = rec]

\* container.stop(timeout): SIGTERM, and SIGKILL once timeout seconds have
\* passed; the request returns when the container is gone.
DaemonStop(id, timeout, t) ==
    IF containers[id].status # "running" THEN containers
    ELSE SetContainer(id, [containers[id] EXCEPT
            !.status = "exited",
            !.killedBy = IF t >= timeout THEN "daemon" ELSE "none",
            !.waited = IF t >= timeout THEN timeout ELSE t])

\* container.kill(): SIGKILL now.
DaemonKill(id) ==
    SetContainer(id, [containers[id] EXCEPT
        !.status = "exited", !.killedBy = "engine", !.waited = 0])

\* An except clause that names the image error instead of APIError.
SwallowsOnlyImageNotFound(exc) == IsImageNotFound(exc)

\* A stop that always kills.
StopRequestAlwaysKills(container_id, forcefully) ==
    [api |-> "container.kill", id |-> container_id]

\* The except clauses around client.containers.get in stop_container and
\* delete_container.
StopSwallows(exc) == IsAPIError(exc)
DeleteSwallows(exc) == IsAPIError(exc)

\* What stop_container asks of a container it found.
StopRequest(container_id, forcefully) ==
    IF forcefully
    THEN [api |-> "container.kill", id |-> container_id]
    ELSE [api |-> "container.stop", id |-> container_id, timeout |-> StopTimeout]

stop_container(container_id, forcefully, fault, t) ==
    LET args == [container_id |-> container_id, forcefully |-> forcefully]
        exc == LookupExc(ContainerIdKnown(container_id), fault)
        request == StopRequest(container_id, forcefully)
    IN
    /\ IF exc # "none"
       THEN /\ backendCalls' = <<GetById(container_id)>>
            /\ lastOp' = IF StopSwallows(exc)
                         THEN Answered("stop_container", args, NoneVal, exc)
                         ELSE Raised("stop_container", args, exc)
            /\ UNCHANGED containers
       ELSE /\ backendCalls' = <<GetById(container_id), request>>
            /\ IF request.api = "container.kill"
               THEN IF containers[container_id].status = "running"
                    THEN /\ containers' = DaemonKill(container_id)
                         /\ lastOp' = Returned("stop_container", args, NoneVal)
                    ELSE /\ lastOp' = Raised("stop_container", args, "APIError")
                         /\ UNCHANGED containers
               ELSE /\ containers' = DaemonStop(container_id, request.timeout, t)
                    /\ lastOp' = Returned("stop_container", args, NoneVal)
    /\ UNCHANGED <<configVars, nextId, imageVars, now, muxVars, buildVars>>

delete_container(container_id, fault) ==
    LET args == [container_id |-> container_id]
        exc == LookupExc(ContainerIdKnown(container_id), fault)
    IN
    /\ IF exc # "none"
       THEN /\ backendCalls' = <<GetById(container_id)>>
            /\ lastOp' = IF DeleteSwallows(exc)
                         THEN Answered("delete_container", args, NoneVal, exc)
                         ELSE Raised("delete_container", args, exc)
            /\ UNCHANGED containers
       ELSE /\ backendCalls' = <<GetById(container_id),
                                 [api |-> "container.remove", id |-> container_id]>>
            /\ IF containers[container_id].status = "running"
               THEN /\ lastOp' = Raised("delete_container", args, "APIError")
                    /\ UNCHANGED containers
               ELSE /\ containers' = [i \in DOMAIN containers \ {container_id} |->
                                        containers[i]]
                    /\ lastOp' = Returned("delete_container", args, NoneVal)
    /\ UNCHANGED <<configVars, nextId, imageVars, now, muxVars, buildVars>>

ReadOnly == UNCHANGED <<configVars, containerVars, imageVars, now, muxVars, buildVars>>

inspect_container(container_id, fault) ==
    LET args == [container_id |-> container_id]
        exc == LookupExc(ContainerIdKnown(container_id), fault)
    IN
    /\ backendCalls' = <<[api |-> "api.inspect_container", id |-> container_id]>>
    /\ lastOp' = IF IsAPIError(exc)
                 THEN Answered("inspect_container", args, NoneVal, exc)
                 ELSE Returned("inspect_container", args, <<"meta", container_id>>)
    /\ ReadOnly

get_container_id_for_service(service_name, fault) ==
    LET args == [service_name |-> service_name]
        name == container_name_for_service(service_name)
        exc == LookupExc(ContainerNameKnown(name), fault)
    IN
    /\ backendCalls' = <<GetByName(name)>>
    /\ lastOp' = IF IsNotFound(exc)
                 THEN Answered("get_container_id_for_service", args, NoneVal, exc)
                 ELSE IF exc # "none"
                 THEN Raised("get_container_id_for_service", args, exc)
                 ELSE Returned("get_container_id_for_service", args,
                               IdVal(ContainerNamed(name)))
    /\ ReadOnly

service_is_running(service, fault) ==
    LET args == [service_name |-> service]
        name == container_name_for_service(service)
        exc == LookupExc(ContainerNameKnown(name), fault)
    IN
    /\ backendCalls' = <<GetByName(name)>>
    /\ lastOp' = IF IsNotFound(exc)
                 THEN Answered("service_is_running", args, FalseVal, exc)
                 ELSE IF exc # "none"
                 THEN Raised("service_is_running", args, exc)
                 ELSE IF containers[ContainerNamed(name)].status = "running"
                 THEN Returned("service_is_running", args, IdVal(ContainerNamed(name)))
                 ELSE Returned("service_is_running", args, FalseVal)
    /\ ReadOnly

\* The container's process ends by itself.
ContainerExits(id) ==
    /\ id \in DOMAIN containers
    /\ containers[id].status = "running"
    /\ containers' = SetContainer(id, [containers[id] EXCEPT !.status = "exited"])
    /\ lastOp' = Idle
    /\ backendCalls' = <<>>
    /\ UNCHANGED <<configVars, nextId, imageVars, now, muxVars, buildVars>>

----------------------------------------------------------------------------
(* Images: lookups by fingerprint and by tag, and commit_role_as_layer *)

ImageRef(repo, tag) == repo \o ":" \o tag

\* client.images.get(name): the image tagged name, ":latest" when name has
\* no tag.
ImagesNamed(name) ==
    {i \in DOMAIN images :
        \/ ImageRef(images[i].repo, images[i].tag) = name
        \/ images[i].repo = name /\ images[i].tag = "latest"}

ImageNamed(name) == CHOOSE i \in ImagesNamed(name) : TRUE

ImagesGetExc(name, fault) ==
    IF ImagesNamed(name) = {} THEN "ImageNotFound"
    ELSE IF fault THEN "APIError"
    ELSE "none"

\* client.images.list(all=True, filters={'label': 'key=value'})
ImagesWithLabel(key, value) ==
    {i \in DOMAIN images :
        key \in DOMAIN images[i].labels /\ images[i].labels[key] = value}

\* "image, = ..." : unpacking anything but exactly one element raises
\* ValueError.
UnpackOneExc(matches) == IF Cardinality(matches) = 1 THEN "none" ELSE "ValueError"

get_image_id_by_fingerprint(fingerprint, fault) ==
    LET args == [fingerprint |-> fingerprint]
        matches == ImagesWithLabel(FINGERPRINT_LABEL_KEY, fingerprint)
        exc == IF fault THEN "APIError" ELSE UnpackOneExc(matches)
    IN
    /\ backendCalls' = <<[api |-> "images.list", all |-> TRUE,
                          label |-> FINGERPRINT_LABEL_KEY \o "=" \o fingerprint]>>
    /\ lastOp' = IF exc = "ValueError"
                 THEN Answered("get_image_id_by_fingerprint", args, NoneVal, exc)
                 ELSE IF exc # "none"
                 THEN Raised("get_image_id_by_fingerprint", args, exc)
                 ELSE Returned("get_image_id_by_fingerprint", args,
                               IdVal(CHOOSE i \in matches : TRUE))
    /\ ReadOnly

get_image_id_by_tag(tag, fault) ==
    LET args == [tag |-> tag]
        exc == ImagesGetExc(tag, fault)
    IN
    /\ backendCalls' = <<[api |-> "images.get", name |-> tag]>>
    /\ lastOp' = IF IsImageNotFound(exc)
                 THEN Answered("get_image_id_by_tag", args, NoneVal, exc)
                 ELSE IF exc # "none"
                 THEN Raised("get_image_id_by_tag", args, exc)
                 ELSE Returned("get_image_id_by_tag", args, IdVal(ImageNamed(tag)))
    /\ ReadOnly

\* An except clause copied from the fingerprint lookup.
AbsentOnlyOnValueError(exc) == exc = "ValueError"

\* "except docker_errors.ImageNotFound" in get_latest_image_id_for_service.
LatestImageAbsent(exc) == IsImageNotFound(exc)

LatestRef(service_name) == image_name_for_service(service_name) \o ":latest"

get_latest_image_id_for_service(service_name, fault) ==
    LET args == [service_name |-> service_name]
        exc == ImagesGetExc(LatestRef(service_name), fault)
    IN
    /\ backendCalls' = <<[api |-> "images.get", name |-> LatestRef(service_name)]>>
    /\ lastOp' = IF LatestImageAbsent(exc)
                 THEN Answered("get_latest_image_id_for_service", args, NoneVal, exc)
                 ELSE IF exc # "none"
                 THEN Raised("get_latest_image_id_for_service", args, exc)
                 ELSE Returned("get_latest_image_id_for_service", args,
                               IdVal(ImageNamed(LatestRef(service_name))))
    /\ ReadOnly

\* datetime.utcnow().strftime('%Y%m%d%H%M%S'), the clock counting seconds
\* from 2024-01-02 03:04:00 UTC.
image_version(t) ==
    "202401020304" \o (IF t < 10 THEN "0" ELSE "") \o ToString(t)

\* utils.metadata_to_image_config: the image configuration of a service's
\* metadata; its Labels are the metadata's labels.
metadata_to_image_config(metadata) == [Labels |-> metadata.labels]

\* The daemon gives tag repo:tag to image id: an image that held it loses it.
TagMoved(imgs, id, rec) ==
    [i \in DOMAIN imgs \cup {id} |->
        IF i = id THEN rec
        ELSE IF imgs[i].repo = rec.repo /\ imgs[i].tag = rec.tag
        THEN [imgs[i] EXCEPT !.repo = "", !.tag = ""]
        ELSE imgs[i]]

\* The labels of the image a container was created from (none when that
\* image is gone).
ContainerLabels(container_id) ==
    IF containers[container_id].image \in DOMAIN images
    THEN images[containers[container_id].image].labels
    ELSE EmptyDict

\* A commit that sets the fingerprint label only when the metadata has none.
CommitDataKeepsMetadataLabel(service_name, fingerprint, metadata) ==
    LET image_config == metadata_to_image_config(metadata)
        labels == DictUpdateKeepsOld(image_config.Labels,
                                     [k \in {FINGERPRINT_LABEL_KEY} |-> fingerprint])
    IN [repository |-> image_name_for_service(service_name),
        tag |-> image_version(now),
        message |-> LAYER_COMMENT,
        conf |-> [Labels |-> labels]]

\* The commit request commit_role_as_layer sends.
CommitData(service_name, fingerprint, metadata) ==
    LET image_config == metadata_to_image_config(metadata)
        labels == DictUpdate(image_config.Labels,
                             [k \in {FINGERPRINT_LABEL_KEY} |-> fingerprint])
    IN [repository |-> image_name_for_service(service_name),
        tag |-> image_version(now),
        message |-> LAYER_COMMENT,
        conf |-> [Labels |-> labels]]

commit_role_as_layer(container_id, service_name, fingerprint, metadata, fault) ==
    LET args == [container_id |-> container_id, service_name |-> service_name,
                 fingerprint |-> fingerprint, metadata |-> metadata]
        exc == LookupExc(ContainerIdKnown(container_id), fault)
        commit_data == CommitData(service_name, fingerprint, metadata)
    IN
    /\ nextImageId <= MaxImages
    /\ IF exc # "none"
       THEN /\ backendCalls' = <<GetById(container_id)>>
            /\ lastOp' = Raised("commit_role_as_layer", args, exc)
            /\ UNCHANGED imageVars
       ELSE /\ backendCalls' = <<GetById(container_id),
                                 [api |-> "container.commit", id |-> container_id,
                                  data |-> commit_data]>>
            /\ images' = TagMoved(images, nextImageId,
                    [repo |-> commit_data.repository,
                     tag |-> commit_data.tag,
                     labels |-> DictUpdate(ContainerLabels(container_id),
                                           commit_data.conf.Labels),
                     comment |-> commit_data.message])
            /\ nextImageId' = nextImageId + 1
            /\ lastOp' = Returned("commit_role_as_layer", args, IdVal(nextImageId))
    /\ UNCHANGED <<configVars, containerVars, now, muxVars, buildVars>>

\* A second passes.
ClockTick ==
    /\ now < MaxTime
    /\ now' = now + 1
    /\ lastOp' = Idle
    /\ backendCalls' = << >>
    /\ UNCHANGED <<configVars, containerVars, imageVars, muxVars, buildVars>>

----------------------------------------------------------------------------
(* build_conductor_image *)

\* The directories a path may name: the process's working directory and the
\* project's directory.
Dirs == {"cwd", "proj"}

ContextFiles == <<"ansible.cfg", "ansible-requirements.txt", "requirements.yml">>

\* os.path.exists(path) of a relative path: relative to the working
\* directory.
ExistsRelative(filename) == <<"cwd", filename>> \in fs

\* tarball.add(os.path.join(source_dir, filename), ...) needs the file.
ExistsUnder(dir, filename) == <<dir, filename>> \in fs

\* "if os.path.exists(filename)": the test that decides whether a declared
\* context file goes into the archive.
ContextFileSelected(source_dir, filename) == ExistsRelative(filename)

\* The first declared file that is selected and cannot be added (0: none).
FirstUnreadable(source_dir) ==
    LET bad == {i \in DOMAIN ContextFiles :
                  /\ ContextFileSelected(source_dir, ContextFiles[i])
                  /\ ~ExistsUnder(source_dir, ContextFiles[i])}
    IN IF bad = {} THEN 0 ELSE CHOOSE i \in bad : \A j \in bad : i <= j

\* The build-src members added from the first n declared files.
ContextMembers(source_dir, n) ==
    {"build-src/" \o ContextFiles[i] :
        i \in {j \in 1..n : ContextFileSelected(source_dir, ContextFiles[j])}}

FixedMembers ==
    {"build-src/.touch", "contrib/get-pip.py", "conductor-src/conductor",
     "conductor-src/setup.py", "conductor-src/requirements.txt", "Dockerfile"}

\* The lines of output the daemon streams for a build.
BuildOutput(outcome) ==
    IF outcome = "ok"
    THEN <<[json |-> TRUE, stream |-> "Step 1/9", raw |-> "{\"stream\": ...}"],
           [json |-> FALSE, stream |-> "", raw |-> "not json"],
           [json |-> TRUE, stream |-> "", raw |-> "{\"aux\": ...}"]>>
    ELSE <<[json |-> TRUE, stream |-> "Step 1/9", raw |-> "{\"stream\": ...}"],
           [json |-> TRUE, stream |-> "", raw |-> "{\"error\": ...}"]>>

\* What the debug loop logs for a line: the frame's 'stream' when the line
\* decodes and has one, the line itself otherwise.
LoggedLine(line) ==
    IF line.json /\ line.stream # "" THEN line.stream ELSE line.raw

ConductorImage ==
    [repo |-> image_name_for_service("conductor"), tag |-> "latest",
     labels |-> EmptyDict, comment |-> ""]

\* The images after the daemon's build.
ImagesAfterBuild(outcome) ==
    IF outcome = "ok" THEN TagMoved(images, nextImageId, ConductorImage)
    ELSE images

\* What the debug branch returns: get_latest_image_id_for_service on the
\* images as the build left them.
LatestConductorAfter(imgs) ==
    LET found == {i \in DOMAIN imgs :
                    imgs[i].repo = image_name_for_service("conductor")
                    /\ imgs[i].tag = "latest"}
    IN IF found = {} THEN NoneVal ELSE IdVal(CHOOSE i \in found : TRUE)

build_conductor_image(base_path, base_image, cache, outcome) ==
    LET args == [base_path |-> base_path, base_image |-> base_image,
                 cache |-> cache, debug |-> debug]
        source_dir == base_path
        bad == FirstUnreadable(source_dir)
        members == ContextMembers(source_dir, Len(ContextFiles)) \cup FixedMembers
        request == [api |-> IF debug THEN "api.build" ELSE "images.build",
                    custom_context |-> TRUE,
                    tag |-> image_name_for_service("conductor"),
                    rm |-> TRUE, nocache |-> ~cache,
                    dockerfile |-> [conductor_base |-> base_image,
                                    docker_version |-> DOCKER_VERSION],
                    context |-> members]
    IN
    /\ nextImageId <= MaxImages
    /\ IF bad # 0
       THEN /\ archive' = ContextMembers(source_dir, bad - 1)
            /\ buildLog' = << >>
            /\ backendCalls' = << >>
            /\ lastOp' = Raised("build_conductor_image", args, "OSError")
            /\ UNCHANGED imageVars
       ELSE /\ archive' = members
            /\ backendCalls' = <<request>>
            /\ images' = ImagesAfterBuild(outcome)
            /\ nextImageId' = IF outcome = "ok" THEN nextImageId + 1 ELSE nextImageId
            /\ IF debug
               THEN /\ buildLog' = [i \in DOMAIN BuildOutput(outcome) |->
                                      LoggedLine(BuildOutput(outcome)[i])]
                    /\ lastOp' = Answered("build_conductor_image", args,
                                          LatestConductorAfter(images'), outcome)
               ELSE /\ buildLog' = << >>
                    /\ lastOp' = IF outcome = "ok"
                                 THEN Answered("build_conductor_image", args,
                                               IdVal(nextImageId), outcome)
                                 ELSE [Raised("build_conductor_image", args,
                                              "BuildError") EXCEPT !.reply = outcome]
    /\ UNCHANGED <<configVars, containerVars, now, muxVars>>

----------------------------------------------------------------------------
(* run_conductor *)

ConductorSourcePath == "/site-packages/container/conductor"
DockerSocket == "/var/run/docker.sock"

\* os.environ.get(key): None, which is as false as '', when key is not set.
EnvGet(key) == IF key \in DOMAIN environ THEN environ[key] ELSE ""
Truthy(value) == value # ""

\* d[key] = value
DictSet(d, key, value) ==
    [k \in DOMAIN d \cup {key} |-> IF k = key THEN value ELSE d[k]]

\* base64.encodestring(json.dumps(value))
Serialized(value) == [encoding |-> "b64json", json |-> value]

Mount(bind, mode) == [bind |-> bind, mode |-> mode]

\* The volumes and the environment run_conductor builds, statement by
\* statement.
ConductorVolumes(base_path, params) ==
    LET v0 == [k \in {base_path} |-> Mount("/src", "ro")]
        v1 == IF Truthy(EnvGet("DOCKER_HOST"))
              THEN IF Truthy(EnvGet("DOCKER_CERT_PATH"))
                   THEN DictSet(v0, EnvGet("DOCKER_CERT_PATH"),
                                Mount("/etc/docker", "ro"))
                   ELSE v0
              ELSE DictSet(v0, DockerSocket, Mount(DockerSocket, "rw"))
    IN IF params.devel
       THEN DictSet(v1, ConductorSourcePath,
                    Mount("/_ansible/conductor/conductor", "rw"))
       ELSE v1

ConductorEnvironment ==
    LET e0 == EmptyDict
    IN IF Truthy(EnvGet("DOCKER_HOST"))
       THEN LET e1 == DictSet(e0, "DOCKER_HOST", EnvGet("DOCKER_HOST"))
                e2 == IF Truthy(EnvGet("DOCKER_CERT_PATH"))
                      THEN DictSet(e1, "DOCKER_CERT_PATH", "/etc/docker")
                      ELSE e1
            IN IF Truthy(EnvGet("DOCKER_TLS_VERIFY"))
               THEN DictSet(e2, "DOCKER_TLS_VERIFY", EnvGet("DOCKER_TLS_VERIFY"))
               ELSE e2
       ELSE DictSet(e0, "DOCKER_HOST", "unix:///var/run/docker.sock")

run_conductor(command, config, base_path, params) ==
    LET args == [command |-> command, config |-> config, base_path |-> base_path,
                 params |-> params]
        image_id == LatestConductorAfter(images)
        name == container_name_for_service("conductor")
        run_kwargs ==
            [name |-> name,
             command |-> <<"conductor", command,
                           "--project-name", project_name,
                           "--engine", "docker",
                           "--params", Serialized(params),
                           "--config", Serialized(config),
                           "--encoding", "b64json">>,
             detach |-> TRUE,
             user |-> "root",
             volumes |-> ConductorVolumes(base_path, params),
             environment |-> ConductorEnvironment]
    IN
    /\ nextId <= MaxContainers
    /\ backendCalls' = <<[api |-> "images.get", name |-> LatestRef("conductor")],
                         [api |-> "containers.run", image |-> image_id,
                          params |-> run_kwargs]>>
    /\ IF image_id = NoneVal \/ ContainerNameKnown(name)
       THEN /\ lastOp' = Raised("run_conductor", args, "APIError")
            /\ UNCHANGED <<containerVars, muxVars>>
       ELSE /\ StartContainer(nextId, name, image_id[2])
            /\ add_iterator(nextId)
            /\ lastOp' = Returned("run_conductor", args, IdVal(nextId))
    /\ UNCHANGED <<configVars, imageVars, now, buildVars>>

----------------------------------------------------------------------------
(* The log multiplexer: one worker for each attached stream.  A worker     *)
(* reads the next line of its container's output and hands the lines it    *)
(* has read to the shared logger, in order; a stalled delivery holds back  *)
(* that worker's lines only.                                               *)

Delivered(id) == Cardinality({i \in DOMAIN sink : sink[i][1] = id})

\* The running container writes a line of output.
ContainerWrites(id) ==
    /\ id \in DOMAIN containers
    /\ containers[id].status = "running"
    /\ emitted[id] < MaxLines
    /\ emitted' = [emitted EXCEPT ![id] = @ + 1]
    /\ UNCHANGED <<configVars, containerVars, imageVars, now, readPos, sink,
                   stalled, buildVars, lastOp, backendCalls>>

WorkerReads(id) ==
    /\ id \in DOMAIN readPos
    /\ readPos[id] < emitted[id]
    /\ readPos' = [readPos EXCEPT ![id] = @ + 1]
    /\ UNCHANGED <<configVars, containerVars, imageVars, now, emitted, sink,
                   stalled, buildVars, lastOp, backendCalls>>

WorkerDelivers(id) ==
    /\ id \in DOMAIN readPos
    /\ id \notin stalled
    /\ Delivered(id) < readPos[id]
    /\ sink' = Append(sink, <<id, Delivered(id) + 1>>)
    /\ UNCHANGED <<configVars, containerVars, imageVars, now, emitted, readPos,
                   stalled, buildVars, lastOp, backendCalls>>

SinkStalls(id) ==
    /\ id \in DOMAIN readPos
    /\ id \notin stalled
    /\ stalled' = stalled \cup {id}
    /\ UNCHANGED <<configVars, containerVars, imageVars, now, emitted, readPos,
                   sink, buildVars, lastOp, backendCalls>>

SinkResumes(id) ==
    /\ id \in stalled
    /\ stalled' = stalled \ {id}
    /\ UNCHANGED <<configVars, containerVars, imageVars, now, emitted, readPos,
                   sink, buildVars, lastOp, backendCalls>>

----------------------------------------------------------------------------
(* Initial states *)

EmptyMap == << >>

DeclaredKeys == {"from", "roles", "command"}
OverrideKeys == {"from", "roles", "command", "name"}

\* Every service declares its build parent, its roles and a command.
DefaultServices ==
    [s \in ServiceNames |-> [k \in DeclaredKeys |-> "decl"]]

NoEnviron == [k \in {} |-> "x"]

BaseImage == [repo |-> "centos", tag |-> "7", labels |-> EmptyDict, comment |-> ""]

InitEngine ==
    /\ debug = FALSE
    /\ environ = NoEnviron
    /\ fs = {}
    /\ containers = EmptyMap
    /\ nextId = 1
    /\ images = [i \in {1} |-> BaseImage]
    /\ nextImageId = 2
    /\ now = 0
    /\ emitted = EmptyMap
    /\ readPos = EmptyMap
    /\ sink = << >>
    /\ stalled = {}
    /\ archive = {}
    /\ buildLog = << >>
    /\ lastOp = Idle
    /\ backendCalls = << >>

----------------------------------------------------------------------------
(* SpecRun: run_container over every service definition and override set *)

InitRun ==
    /\ services \in [ServiceNames -> Dicts(DeclaredKeys, "decl")]
    /\ InitEngine

NextRun ==
    \E service_name \in ServiceNames, kwargs \in Dicts(OverrideKeys, "over") :
        run_container(1, service_name, kwargs)

SpecRun == InitRun /\ [][NextRun]_vars

----------------------------------------------------------------------------
(* SpecLifecycle: containers are run, stopped, deleted and looked up *)

InitLifecycle ==
    /\ services = DefaultServices
    /\ InitEngine

ContainerIds == 1..MaxContainers

LifecycleKwargs(service_name) ==
    {EmptyDict, [k \in {"name"} |-> container_name_for_service(service_name)]}

NextLifecycle ==
    \/ \E service_name \in ServiceNames :
          \E kwargs \in LifecycleKwargs(service_name) :
             run_container(1, service_name, kwargs)
    \/ \E id \in ContainerIds, forcefully \in BOOLEAN, fault \in BOOLEAN,
          t \in ExitTimes :
             stop_container(id, forcefully, fault, t)
    \/ \E id \in ContainerIds, fault \in BOOLEAN : delete_container(id, fault)
    \/ \E id \in ContainerIds, fault \in BOOLEAN : inspect_container(id, fault)
    \/ \E service_name \in ServiceNames, fault \in BOOLEAN :
          get_container_id_for_service(service_name, fault)
    \/ \E service_name \in ServiceNames, fault \in BOOLEAN :
          service_is_running(service_name, fault)
    \/ \E id \in ContainerIds : ContainerExits(id)

SpecLifecycle == InitLifecycle /\ [][NextLifecycle]_vars

----------------------------------------------------------------------------
(* Properties of run_container *)

RunForwarded ==
    /\ lastOp.op = "run_container"
    /\ backendCalls # << >>

\* C3 as stated: the parameters run_container forwards are the declared
\* parameters updated by the overrides, the override winning on every shared
\* key, and they never contain 'from' or 'roles'.
C3_ForwardedNeverHasBuildKeys ==
    RunForwarded =>
        LET declared == services[lastOp.args.service_name]
            overrides == lastOp.args.kwargs
            params == backendCalls[1].params
        IN
        /\ \A k \in DOMAIN overrides : k \in DOMAIN params /\ params[k] = overrides[k]
        /\ \A k \in DOMAIN declared \ (DOMAIN overrides \cup {"from", "roles"}) :
              k \in DOMAIN params /\ params[k] = declared[k]
        /\ DOMAIN params \cap {"from", "roles"} = {}

\* C3 amended: the forwarded parameters are the declared parameters without
\* 'from' and 'roles', updated by the overrides (the override wins on every
\* shared key); 'from' or 'roles' is forwarded exactly when the overrides
\* themselves supply it.
C3_ForwardedIsStrippedThenMerged ==
    RunForwarded =>
        LET declared == services[lastOp.args.service_name]
            overrides == lastOp.args.kwargs
            params == backendCalls[1].params
        IN
        /\ DOMAIN params = (DOMAIN declared \ {"from", "roles"}) \cup DOMAIN overrides
        /\ \A k \in DOMAIN overrides : params[k] = overrides[k]
        /\ \A k \in DOMAIN params \ DOMAIN overrides : params[k] = declared[k]
        /\ \A k \in {"from", "roles"} : k \in DOMAIN params <=> k \in DOMAIN overrides

\* A run whose overrides share the key 'command' with the declaration and
\* carry no build-only key has reached the daemon.
C3_Witness ==
    /\ RunForwarded
    /\ lastOp.exc = "none"
    /\ "command" \in DOMAIN services[lastOp.args.service_name]
    /\ "command" \in DOMAIN lastOp.args.kwargs
    /\ DOMAIN lastOp.args.kwargs \cap {"from", "roles"} = {}

----------------------------------------------------------------------------
(* Properties of stop_container and delete_container *)

\* C5: stop_container and delete_container of an id the daemon does not
\* know return normally and leave the daemon's containers as they were.
C5_StopDeleteOfUnknownIsNoop ==
    [][(/\ lastOp'.op \in {"stop_container", "delete_container"}
        /\ lastOp'.args.container_id \notin DOMAIN containers)
       => (/\ lastOp'.exc = "none"
           /\ lastOp'.ret = NoneVal
           /\ containers' = containers)]_vars

\* A container was run and deleted, another is still there, and a stop of
\* the deleted one's id has returned after the lookup alone.
C5_Witness ==
    /\ lastOp.op = "stop_container"
    /\ lastOp.args.container_id \notin DOMAIN containers
    /\ lastOp.args.container_id < nextId
    /\ DOMAIN containers # {}
    /\ Len(backendCalls) = 1

\* C9: a stop that is not forceful asks the daemon for a stop with the 60
\* second grace period and sends no kill, so a container is killed by the
\* daemon only once the 60 seconds are over; a forceful stop sends the kill
\* and nothing else, and the container is gone at once.
C9_GracefulStopWaitsForcefulKills ==
    /\ (lastOp.op = "stop_container" /\ Len(backendCalls) = 2) =>
          LET request == backendCalls[2]
          IN IF lastOp.args.forcefully
             THEN /\ request.api = "container.kill"
                  /\ \A i \in DOMAIN backendCalls : backendCalls[i].api # "container.stop"
                  /\ lastOp.exc = "none" =>
                        /\ containers[request.id].killedBy = "engine"
                        /\ containers[request.id].waited = 0
             ELSE /\ request.api = "container.stop"
                  /\ request.timeout = 60
                  /\ \A i \in DOMAIN backendCalls : backendCalls[i].api # "container.kill"
    /\ \A i \in DOMAIN containers :
          containers[i].killedBy = "daemon" => containers[i].waited >= 60

\* Both cases have happened: one container outlived the grace period of a
\* stop and was killed by the daemon, and a forceful stop has just killed
\* another.
C9_Witness ==
    /\ lastOp.op = "stop_container"
    /\ lastOp.args.forcefully
    /\ lastOp.exc = "none"
    /\ Len(backendCalls) = 2
    /\ \E i \in DOMAIN containers : containers[i].killedBy = "daemon"

----------------------------------------------------------------------------
(* SpecBuild: the conductor image is built from every file layout *)

AllContextFiles == {<<d, ContextFiles[i]>> : d \in Dirs, i \in DOMAIN ContextFiles}

InitBuild ==
    /\ services = DefaultServices
    /\ debug \in BOOLEAN
    /\ environ = NoEnviron
    /\ fs \in SUBSET AllContextFiles
    /\ containers = EmptyMap
    /\ nextId = 1
    /\ images = [i \in {1} |-> BaseImage]
    /\ nextImageId = 2
    /\ now = 0
    /\ emitted = EmptyMap
    /\ readPos = EmptyMap
    /\ sink = << >>
    /\ stalled = {}
    /\ archive = {}
    /\ buildLog = << >>
    /\ lastOp = Idle
    /\ backendCalls = << >>

NextBuild ==
    \E base_path \in Dirs, cache \in BOOLEAN, outcome \in {"ok", "fail"} :
        build_conductor_image(base_path, "centos:7", cache, outcome)

SpecBuild == InitBuild /\ [][NextBuild]_vars

----------------------------------------------------------------------------
(* Properties of build_conductor_image *)

BuildCalled == lastOp.op = "build_conductor_image"

\* C2: build_conductor_image raises whenever the daemon's build ended with
\* an error, with debug on or off, and returns no image id for it.
C2_FailedBuildIsRaised ==
    (BuildCalled /\ lastOp.reply = "fail") =>
        /\ lastOp.exc # "none"
        /\ lastOp.ret = NoneVal

\* C4: whichever declared context files exist under the base path, the
\* archive is assembled without an error and holds build-src/<file> for
\* exactly those files, with the placeholder, the helper source and the
\* Dockerfile.
C4_ArchiveHoldsFilesUnderBasePath ==
    BuildCalled =>
        /\ lastOp.exc # "OSError"
        /\ \A i \in DOMAIN ContextFiles :
              ("build-src/" \o ContextFiles[i]) \in archive
                 <=> <<lastOp.args.base_path, ContextFiles[i]>> \in fs
        /\ {"build-src/.touch", "conductor-src/conductor", "conductor-src/setup.py",
            "conductor-src/requirements.txt", "Dockerfile"} \subseteq archive

----------------------------------------------------------------------------
(* SpecImages: layers are committed and images looked up *)

Fingerprints == {"fp1", "fp2"}

Metadatas ==
    {[labels |-> EmptyDict],
     [labels |-> [k \in {FINGERPRINT_LABEL_KEY} |-> "stale"]]}

TagRefs ==
    {"centos:7", "proj-conductor", "proj-conductor:latest",
     ImageRef(image_name_for_service("web"), image_version(0)),
     "proj-web:latest"}

NextImages ==
    \/ \E image_id \in DOMAIN images : run_container(image_id, "web", EmptyDict)
    \/ \E id \in ContainerIds, service_name \in ServiceNames,
          fingerprint \in Fingerprints, metadata \in Metadatas :
             commit_role_as_layer(id, service_name, fingerprint, metadata, FALSE)
    \/ ClockTick
    \/ \E fingerprint \in Fingerprints, fault \in BOOLEAN :
          get_image_id_by_fingerprint(fingerprint, fault)

SpecImages == InitLifecycle /\ [][NextImages]_vars

(* SpecReads: containers and images come and go, and every read is made *)

NextReads ==
    \/ \E service_name \in ServiceNames :
          run_container(1, service_name,
                        [k \in {"name"} |-> container_name_for_service(service_name)])
    \/ \E id \in ContainerIds : ContainerExits(id)
    \/ \E id \in ContainerIds : delete_container(id, FALSE)
    \/ \E id \in ContainerIds :
          commit_role_as_layer(id, "web", "fp1", [labels |-> EmptyDict], FALSE)
    \/ build_conductor_image("proj", "centos:7", TRUE, "ok")
    \/ \E id \in ContainerIds, fault \in BOOLEAN : inspect_container(id, fault)
    \/ \E service_name \in ServiceNames, fault \in BOOLEAN :
          get_container_id_for_service(service_name, fault)
    \/ \E service_name \in ServiceNames, fault \in BOOLEAN :
          service_is_running(service_name, fault)
    \/ \E tag \in TagRefs, fault \in BOOLEAN : get_image_id_by_tag(tag, fault)
    \/ \E service_name \in ServiceNames \cup {"conductor"}, fault \in BOOLEAN :
          get_latest_image_id_for_service(service_name, fault)

SpecReads == InitLifecycle /\ [][NextReads]_vars

----------------------------------------------------------------------------
(* Properties of the image operations *)

FingerprintMatches(fp) ==
    {i \in DOMAIN images :
        /\ "com.ansible.container.fingerprint" \in DOMAIN images[i].labels
        /\ images[i].labels["com.ansible.container.fingerprint"] = fp}

\* C1: get_image_id_by_fingerprint returns absent when no image carries the
\* fingerprint, that image's id when one does, and raises an ambiguity error
\* (neither absent nor an id) when two or more do.
C1_AmbiguousFingerprintIsRaised ==
    (lastOp.op = "get_image_id_by_fingerprint" /\ lastOp.reply # "APIError") =>
        LET matches == FingerprintMatches(lastOp.args.fingerprint)
        IN CASE Cardinality(matches) = 0 ->
                   lastOp.exc = "none" /\ lastOp.ret = NoneVal
             [] Cardinality(matches) = 1 ->
                   lastOp.exc = "none" /\ \E i \in matches : lastOp.ret = IdVal(i)
             [] OTHER -> lastOp.exc # "none"

\* C7: the image commit_role_as_layer has just produced carries the
\* fingerprint label with the fingerprint given (whatever the metadata and
\* the container's own image say under that key), the fixed comment and the
\* service's image name; every image with the comment has the label.
C7_CommittedImageIsLabelled ==
    /\ (lastOp.op = "commit_role_as_layer" /\ lastOp.exc = "none") =>
          LET image == images[lastOp.ret[2]]
          IN /\ "com.ansible.container.fingerprint" \in DOMAIN image.labels
             /\ image.labels["com.ansible.container.fingerprint"]
                    = lastOp.args.fingerprint
             /\ image.comment = LAYER_COMMENT
             /\ image.repo = "proj-" \o lastOp.args.service_name
    /\ \A i \in DOMAIN images :
          images[i].comment = LAYER_COMMENT =>
             "com.ansible.container.fingerprint" \in DOMAIN images[i].labels

\* A commit whose metadata brought another value under the label key, from
\* a container whose own image carries a third one.
C7_Witness ==
    /\ lastOp.op = "commit_role_as_layer"
    /\ lastOp.exc = "none"
    /\ "com.ansible.container.fingerprint" \in DOMAIN lastOp.args.metadata.labels
    /\ LET labels == ContainerLabels(lastOp.args.container_id)
       IN /\ "com.ansible.container.fingerprint" \in DOMAIN labels
          /\ labels["com.ansible.container.fingerprint"] # lastOp.args.fingerprint

----------------------------------------------------------------------------
(* Properties of the reads *)

NoContainerOf(service_name) ==
    \A i \in DOMAIN containers : containers[i].name # "proj_" \o service_name

NoImageTagged(name) ==
    \A i \in DOMAIN images :
        /\ images[i].repo \o ":" \o images[i].tag # name
        /\ ~(images[i].repo = name /\ images[i].tag = "latest")

\* C6: a read of a container or an image the daemon does not know returns
\* None (False for service_is_running) and raises nothing; inspect_container
\* returns None also when the daemon answers with another error.
C6_ReadsOfUnknownReturnAbsent ==
    /\ (/\ lastOp.op = "inspect_container"
        /\ \/ lastOp.args.container_id \notin DOMAIN containers
           \/ lastOp.reply = "APIError")
          => (lastOp.exc = "none" /\ lastOp.ret = NoneVal)
    /\ (/\ lastOp.op = "get_container_id_for_service"
        /\ NoContainerOf(lastOp.args.service_name))
          => (lastOp.exc = "none" /\ lastOp.ret = NoneVal)
    /\ (/\ lastOp.op = "service_is_running"
        /\ NoContainerOf(lastOp.args.service_name))
          => (lastOp.exc = "none" /\ lastOp.ret = FalseVal)
    /\ (/\ lastOp.op = "get_image_id_by_tag"
        /\ NoImageTagged(lastOp.args.tag))
          => (lastOp.exc = "none" /\ lastOp.ret = NoneVal)
    /\ (/\ lastOp.op = "get_latest_image_id_for_service"
        /\ NoImageTagged("proj-" \o lastOp.args.service_name \o ":latest"))
          => (lastOp.exc = "none" /\ lastOp.ret = NoneVal)

\* The web service has a committed image, which is not tagged latest, and
\* the lookup of its latest image has returned None.
C6_Witness ==
    /\ lastOp.op = "get_latest_image_id_for_service"
    /\ lastOp.args.service_name = "web"
    /\ lastOp.ret = NoneVal
    /\ \E i \in DOMAIN images : images[i].repo = "proj-web"
    /\ DOMAIN containers # {}

----------------------------------------------------------------------------
(* SpecConductor: the conductor is launched under every environment *)

Environs ==
    {e \in UNION {[ks -> {"", "tcp://remote:2376", "/certs", "/proj", "1"}] :
                    ks \in SUBSET {"DOCKER_HOST", "DOCKER_CERT_PATH",
                                   "DOCKER_TLS_VERIFY"}} :
        /\ "DOCKER_HOST" \in DOMAIN e => e["DOCKER_HOST"] \in {"", "tcp://remote:2376"}
        /\ "DOCKER_CERT_PATH" \in DOMAIN e =>
              e["DOCKER_CERT_PATH"] \in {"", "/certs", "/proj"}
        /\ "DOCKER_TLS_VERIFY" \in DOMAIN e => e["DOCKER_TLS_VERIFY"] \in {"", "1"}}

BasePaths == {"/proj", "/work"}

InitConductor ==
    /\ services = DefaultServices
    /\ debug = FALSE
    /\ environ \in Environs
    /\ fs = {}
    /\ containers = EmptyMap
    /\ nextId = 1
    /\ images = [i \in {1} |-> BaseImage]
    /\ nextImageId = 2
    /\ now = 0
    /\ emitted = EmptyMap
    /\ readPos = EmptyMap
    /\ sink = << >>
    /\ stalled = {}
    /\ archive = {}
    /\ buildLog = << >>
    /\ lastOp = Idle
    /\ backendCalls = << >>

NextConductor ==
    \/ build_conductor_image("proj", "centos:7", TRUE, "ok")
    \/ \E command \in {"build", "run"}, base_path \in BasePaths, devel \in BOOLEAN :
          run_conductor(command, [services |-> DefaultServices], base_path,
                        [devel |-> devel])
    \/ \E id \in ContainerIds : stop_container(id, TRUE, FALSE, 0)
    \/ \E id \in ContainerIds : delete_container(id, FALSE)

SpecConductor == InitConductor /\ [][NextConductor]_vars

----------------------------------------------------------------------------
(* Properties of run_conductor *)

ConductorLaunched == lastOp.op = "run_conductor" /\ lastOp.exc = "none"

\* C8: under every setting of DOCKER_HOST, DOCKER_CERT_PATH and
\* DOCKER_TLS_VERIFY run_conductor mounts the project source read-only at
\* /src; with a remote endpoint it forwards the endpoint and, when a
\* certificate directory is configured too, mounts that directory read-only
\* and forwards the verify flag; without one it mounts the local control
\* socket read-write; the socket mount and the forwarded endpoint never
\* occur together.
C8_ConductorMountsAndEnvironment ==
    ConductorLaunched =>
        LET volumes == backendCalls[2].params.volumes
            environment == backendCalls[2].params.environment
            host == IF "DOCKER_HOST" \in DOMAIN environ THEN environ["DOCKER_HOST"] ELSE ""
            cert == IF "DOCKER_CERT_PATH" \in DOMAIN environ
                    THEN environ["DOCKER_CERT_PATH"] ELSE ""
            verify == IF "DOCKER_TLS_VERIFY" \in DOMAIN environ
                      THEN environ["DOCKER_TLS_VERIFY"] ELSE ""
            socket == "/var/run/docker.sock"
        IN
        /\ lastOp.args.base_path \in DOMAIN volumes
        /\ volumes[lastOp.args.base_path] = [bind |-> "/src", mode |-> "ro"]
        /\ host # "" =>
              /\ environment["DOCKER_HOST"] = host
              /\ cert # "" =>
                    /\ cert \in DOMAIN volumes
                    /\ volumes[cert].mode = "ro"
                    /\ verify # "" =>
                          /\ "DOCKER_TLS_VERIFY" \in DOMAIN environment
                          /\ environment["DOCKER_TLS_VERIFY"] = verify
        /\ host = "" =>
              /\ socket \in DOMAIN volumes
              /\ volumes[socket] = [bind |-> socket, mode |-> "rw"]
        /\ ~(socket \in DOMAIN volumes /\ host # "")

\* The same with the certificate directory anywhere but at the project's
\* base path: the statement run_conductor does satisfy.
ConductorMountsWhenPathsDiffer ==
    (/\ ConductorLaunched
     /\ EnvGet("DOCKER_CERT_PATH") # lastOp.args.base_path)
       => C8_ConductorMountsAndEnvironment

----------------------------------------------------------------------------
(* SpecLogs: two containers are launched and their output is drained *)

InitLogs ==
    /\ services = DefaultServices
    /\ debug = FALSE
    /\ environ = NoEnviron
    /\ fs = {}
    /\ containers = EmptyMap
    /\ nextId = 1
    /\ images = [i \in {1, 2} |-> IF i = 1 THEN BaseImage ELSE ConductorImage]
    /\ nextImageId = 3
    /\ now = 0
    /\ emitted = EmptyMap
    /\ readPos = EmptyMap
    /\ sink = << >>
    /\ stalled = {}
    /\ archive = {}
    /\ buildLog = << >>
    /\ lastOp = Idle
    /\ backendCalls = << >>

LogIds == 1..2

NextLogs ==
    \/ /\ nextId \in LogIds
       /\ run_container(1, "web", EmptyDict)
    \/ /\ nextId \in LogIds
       /\ run_conductor("run", [services |-> DefaultServices], "/proj",
                        [devel |-> FALSE])
    \/ \E id \in LogIds : ContainerWrites(id)
    \/ \E id \in LogIds : WorkerReads(id)
    \/ \E id \in LogIds : WorkerDelivers(id)
    \/ \E id \in LogIds : SinkStalls(id)
    \/ \E id \in LogIds : SinkResumes(id)

\* The workers are threads the scheduler runs; a stall of the sink ends.
FairLogs ==
    \A id \in LogIds :
        /\ WF_vars(WorkerReads(id))
        /\ SF_vars(WorkerDelivers(id))
        /\ WF_vars(SinkResumes(id))

SpecLogs == InitLogs /\ [][NextLogs]_vars /\ FairLogs

----------------------------------------------------------------------------
(* Properties of the log multiplexer *)

Written(id, n) == id \in DOMAIN emitted /\ emitted[id] >= n

InSink(id, n) == \E i \in DOMAIN sink : sink[i] = <<id, n>>

====
